---- MODULE Spec2Model ----
(***************************************************************************)
(* Model of create_schedule.py: the template normalizer                    *)
(* (build_schedule_from_df), the event expander (generate_events,          *)
(* create_event, sanitize_uid, get_week_number_in_month), generate_ics and *)
(* the top-level generation guard.                                         *)
(*                                                                         *)
(* Text is a sequence of one-character strings, so that strip(), upper(),  *)
(* int(), strftime() and sanitize_uid() are computed character by          *)
(* character.  A date is its proleptic Gregorian ordinal (date.toordinal); *)
(* year, month and day are recovered as datetime recovers them.            *)
(* A dict is a function on its key set; the innermost dict (the sessions   *)
(* of one weekday) is a sequence of <<key, value>> pairs kept in insertion *)
(* order, because generate_events iterates over it with .items().          *)
(* DTSTAMP (the wall clock) and the fixed lines of a VEVENT block carry no *)
(* state and are left out of the event record.                             *)
(***************************************************************************)
EXTENDS Integers, Sequences, FiniteSets, TLC

VARIABLES
    edited_df,      \* the table: a sequence of rows
    start_date,     \* ordinal of the start date
    end_date,       \* ordinal of the end date
    pc,             \* position of the script
    row_i,          \* index of the next row of df.iterrows()
    schedule,       \* the template being built
    current_date,   \* generate_events: the loop variable
    events,         \* generate_events: the VEVENT blocks emitted so far
    raised,         \* the uncaught exception, "none" when there is none
    ics_calls,      \* number of calls of generate_ics
    ics_content     \* <<>> when no document exists, else <<blocks>>

vars == <<edited_df, start_date, end_date, pc, row_i, schedule,
          current_date, events, raised, ics_calls, ics_content>>

----------------------------------------------------------------------------
(* Text *)

Chars(t) == {t[k] : k \in 1..Len(t)}

IsSpace(c) == c = " "

Letters == {"A", "B", "M", "P", "X", "N", "T", "a", "m", "p", "x",
            "s", "c", "h", "e", "d", "u", "l"}

Digits == {"0", "1", "2", "3", "4", "5", "6", "7", "8", "9"}

\* str.isalnum() of one character
IsAlnum(c) == c \in Letters \cup Digits

UpperChar(c) ==
    CASE c = "a" -> "A"
      [] c = "m" -> "M"
      [] c = "p" -> "P"
      [] c = "x" -> "X"
      [] OTHER -> c

\* str.upper()
Upper(t) == [k \in 1..Len(t) |-> UpperChar(t[k])]

RECURSIVE LStrip(_)
LStrip(t) == IF t # <<>> /\ IsSpace(Head(t)) THEN LStrip(Tail(t)) ELSE t

RECURSIVE RStrip(_)
RStrip(t) ==
    IF t # <<>> /\ IsSpace(t[Len(t)]) THEN RStrip(SubSeq(t, 1, Len(t) - 1)) ELSE t

\* str.strip()
Strip(t) == RStrip(LStrip(t))

DigitValue(c) ==
    CASE c = "0" -> 0 [] c = "1" -> 1 [] c = "2" -> 2 [] c = "3" -> 3
      [] c = "4" -> 4 [] c = "5" -> 5 [] c = "6" -> 6 [] c = "7" -> 7
      [] c = "8" -> 8 [] c = "9" -> 9

DigitChar(n) ==
    CASE n = 0 -> "0" [] n = 1 -> "1" [] n = 2 -> "2" [] n = 3 -> "3"
      [] n = 4 -> "4" [] n = 5 -> "5" [] n = 6 -> "6" [] n = 7 -> "7"
      [] n = 8 -> "8" [] n = 9 -> "9"

RECURSIVE ParseDigits(_)
ParseDigits(t) ==
    IF t = <<>> THEN 0
    ELSE 10 * ParseDigits(SubSeq(t, 1, Len(t) - 1)) + DigitValue(t[Len(t)])

\* n written with `width` decimal digits, zero padded (%Y, %m, %d, %H ...)
RECURSIVE Padded(_, _)
Padded(n, width) ==
    IF width = 0 THEN <<>>
    ELSE Append(Padded(n \div 10, width - 1), DigitChar(n % 10))

----------------------------------------------------------------------------
(* Dates: the arithmetic of datetime behind date.replace, date - date,     *)
(* date.weekday and strftime                                               *)

IsLeap(y) == y % 4 = 0 /\ (y % 100 # 0 \/ y % 400 = 0)

DaysInMonth(y, m) ==
    IF m = 2 THEN (IF IsLeap(y) THEN 29 ELSE 28)
    ELSE IF m \in {4, 6, 9, 11} THEN 30 ELSE 31

DaysBeforeYear(y) ==
    (y - 1) * 365 + (y - 1) \div 4 - (y - 1) \div 100 + (y - 1) \div 400

RECURSIVE DaysBeforeMonth(_, _)
DaysBeforeMonth(y, m) ==
    IF m = 1 THEN 0 ELSE DaysBeforeMonth(y, m - 1) + DaysInMonth(y, m - 1)

\* date(y, m, d).toordinal()
ToOrdinal(y, m, d) == DaysBeforeYear(y) + DaysBeforeMonth(y, m) + d

\* the year of the date with ordinal n
YearOf(n) ==
    LET n0   == n - 1
        n400 == n0 \div 146097
        r400 == n0 % 146097
        n100 == r400 \div 36524
        r100 == r400 % 36524
        n4   == r100 \div 1461
        r4   == r100 % 1461
        n1   == r4 \div 365
        y    == n400 * 400 + n100 * 100 + n4 * 4 + n1 + 1
    IN  IF n1 = 4 \/ n100 = 4 THEN y - 1 ELSE y

RECURSIVE MonthFrom(_, _, _)
MonthFrom(y, m, rest) ==
    IF rest < DaysInMonth(y, m) THEN m ELSE MonthFrom(y, m + 1, rest - DaysInMonth(y, m))

\* the month of the date with ordinal n
MonthOf(n) == MonthFrom(YearOf(n), 1, n - DaysBeforeYear(YearOf(n)) - 1)

\* the day of the month of the date with ordinal n
DayOf(n) == n - DaysBeforeYear(YearOf(n)) - DaysBeforeMonth(YearOf(n), MonthOf(n))

\* mutant of Weekday: days numbered from Sunday = 0
WeekdaySundayFirst(n) == n % 7

\* date.weekday(): Monday is 0
Weekday(n) == (n + 6) % 7

\* date.replace(day=1)
ReplaceDay1(n) == ToOrdinal(YearOf(n), MonthOf(n), 1)

\* datetime.strftime('%Y%m%dT%H%M%S') of the date at hour:00:00
Strftime(n, hour) ==
    Padded(YearOf(n), 4) \o Padded(MonthOf(n), 2) \o Padded(DayOf(n), 2)
        \o <<"T">> \o Padded(hour, 2) \o Padded(0, 2) \o Padded(0, 2)

----------------------------------------------------------------------------
(* Helper functions of the script *)

WeekdayNames == <<"Mon", "Tues", "Wed", "Thur", "Fri">>

WEEKDAY_MAP == [name \in {WeekdayNames[k] : k \in 1..5} |->
                   (CHOOSE k \in 1..5 : WeekdayNames[k] = name) - 1]

\* [k for k, v in WEEKDAY_MAP.items() if v == weekday][0]
DayName(weekday) == CHOOSE name \in DOMAIN WEEKDAY_MAP : WEEKDAY_MAP[name] = weekday

\* mutant of get_week_number_in_month: date.day // 7 + 1
get_week_number_from_day(date) == (DayOf(date) \div 7) + 1

get_week_number_in_month(date) ==
    LET first_day       == ReplaceDay1(date)
        days_from_first == date - first_day
    IN  (days_from_first \div 7) + 1

RECURSIVE Filter(_, _)
Filter(t, keep) ==
    IF t = <<>> THEN <<>>
    ELSE IF Head(t) \in keep THEN <<Head(t)>> \o Filter(Tail(t), keep)
    ELSE Filter(Tail(t), keep)

sanitize_uid(text) ==
    Strip(Filter(text, {c \in Chars(text) : IsAlnum(c) \/ c \in {"-", "_"}}))

\* the lines of a VEVENT block that depend on the arguments
create_event(uid, start, end, location) ==
    [UID      |-> sanitize_uid(uid),
     DTSTART  |-> Strftime(start[1], start[2]),
     DTEND    |-> Strftime(end[1], end[2]),
     SUMMARY  |-> location,
     LOCATION |-> location]

\* mutant of UidText: the uid built from the label alone
UidTextLabelOnly(start, location) ==
    location \o <<"@", "s", "c", "h", "e", "d", "u", "l", "e">>

\* f"{start.strftime('%Y%m%dT%H%M%S')}-{location}@schedule"
UidText(start, location) ==
    Strftime(start[1], start[2]) \o <<"-">> \o location
        \o <<"@", "s", "c", "h", "e", "d", "u", "l", "e">>

----------------------------------------------------------------------------
(* Dicts of sessions, in insertion order *)

Keys(sessions) == {sessions[k][1] : k \in 1..Len(sessions)}

HasKey(sessions, key) == key \in Keys(sessions)

\* sessions[key], for a key that is present
Item(sessions, key) ==
    sessions[CHOOSE k \in 1..Len(sessions) : sessions[k][1] = key][2]

\* sessions.get(key): <<>> stands for None, <<v>> for the value v
Get(sessions, key) == IF HasKey(sessions, key) THEN <<Item(sessions, key)>> ELSE <<>>

\* mutant of SetItem: a key that is present keeps its value
SetItemKeepFirst(sessions, key, value) ==
    IF key \in {sessions[k][1] : k \in 1..Len(sessions)}
    THEN sessions
    ELSE Append(sessions, <<key, value>>)

\* sessions[key] = value
SetItem(sessions, key, value) ==
    IF HasKey(sessions, key)
    THEN [k \in 1..Len(sessions) |->
             IF sessions[k][1] = key THEN <<key, value>> ELSE sessions[k]]
    ELSE Append(sessions, <<key, value>>)

\* truth value of sessions.get(key)
Truthy(opt) == opt # <<>> /\ opt[1] # <<>>

AM == <<"A", "M">>
PM == <<"P", "M">>

----------------------------------------------------------------------------
(* The table and the template normalizer *)

IntCell(n) == [t |-> "int", n |-> n, s |-> <<>>]
StrCell(s) == [t |-> "str", n |-> 0, s |-> s]
NoneCell   == [t |-> "none", n |-> 0, s |-> <<>>]

\* mutant of ToInt: text that is no number converts to 0
ToIntLenient(x) ==
    CASE x.t = "int"  -> [raises |-> "none", value |-> x.n]
      [] x.t = "none" -> [raises |-> "TypeError", value |-> 0]
      [] x.t = "str"  ->
            [raises |-> "none",
             value  |-> ParseDigits(Filter(x.s, Digits))]

\* int(x): the value, or the exception int() raises
ToInt(x) ==
    CASE x.t = "int"  -> [raises |-> "none", value |-> x.n]
      [] x.t = "none" -> [raises |-> "TypeError", value |-> 0]
      [] x.t = "str"  ->
            LET body == Strip(x.s)
            IN  IF body # <<>> /\ Chars(body) \subseteq Digits
                THEN [raises |-> "none", value |-> ParseDigits(body)]
                ELSE [raises |-> "ValueError", value |-> 0]

\* str(x) of a text cell
Str(x) == x

Row(week, ampm, mon, tues, wed, thur, fri) ==
    [c \in {"Week", "AM/PM", "Mon", "Tues", "Wed", "Thur", "Fri"} |->
        CASE c = "Week"  -> week
          [] c = "AM/PM" -> ampm
          [] c = "Mon"   -> mon
          [] c = "Tues"  -> tues
          [] c = "Wed"   -> wed
          [] c = "Thur"  -> thur
          [] c = "Fri"   -> fri]

EmptySchedule == [w \in {} |-> <<>>]

\* one iteration of `for _, row in df.iterrows()` whose int() succeeds
build_row(sched, row) ==
    LET week  == ToInt(row["Week"]).value
        ampm  == Upper(Strip(row["AM/PM"]))
        days0 == IF week \in DOMAIN sched THEN sched[week] ELSE [d \in {} |-> <<>>]
        days1 == [day \in DOMAIN days0 \cup DOMAIN WEEKDAY_MAP |->
                    LET old   == IF day \in DOMAIN days0 THEN days0[day] ELSE <<>>
                        value == Strip(Str(row[day]))
                    IN  IF value # <<>> THEN SetItem(old, ampm, value) ELSE old]
    IN  [w \in DOMAIN sched \cup {week} |-> IF w = week THEN days1 ELSE sched[w]]

\* mutant of AnyLabel: a label under any key counts
AnyLabelAnyKey(sched) ==
    \E w \in DOMAIN sched : \E d \in DOMAIN sched[w] : sched[w][d] # <<>>

\* any(schedule[w][d].get("AM") or schedule[w][d].get("PM") for w ... for d ...)
AnyLabel(sched) ==
    \E w \in DOMAIN sched : \E d \in DOMAIN sched[w] :
        Truthy(Get(sched[w][d], AM)) \/ Truthy(Get(sched[w][d], PM))

\* start_date > end_date
RangeRejected(s, e) == s > e

----------------------------------------------------------------------------
(* The event expander *)

\* sessions.get("AM") == sessions.get("PM")
SameSessions(sessions) == Get(sessions, AM) = Get(sessions, PM)

\* the block of the merged branch, for sessions that hold "AM"
MergedBlock(date, sessions) ==
    LET location == Item(sessions, AM)
        start    == <<date, 8>>
        end      == <<date, 17>>
    IN  create_event(UidText(start, location), start, end, location)

\* the block of one (session, location) item of the else branch
SessionBlock(date, session, location) ==
    LET start == IF session = AM THEN <<date, 8>> ELSE <<date, 13>>
        end   == IF session = AM THEN <<date, 12>> ELSE <<date, 17>>
    IN  create_event(UidText(start, location), start, end, location)

\* mutant of SessionBlocks: the AM block first, whatever the dict order
SessionBlocksAmFirst(date, sessions) ==
    LET am    == SelectSeq(sessions, LAMBDA item : item[1] = AM)
        other == SelectSeq(sessions, LAMBDA item : item[1] # AM)
    IN  [k \in 1..Len(sessions) |->
            SessionBlock(date, (am \o other)[k][1], (am \o other)[k][2])]

\* for session, location in sessions.items(): one block each, in dict order
SessionBlocks(date, sessions) ==
    [k \in 1..Len(sessions) |-> SessionBlock(date, sessions[k][1], sessions[k][2])]

\* week_num in schedule and day_name in schedule[week_num]
HasEntry(sched, date) ==
    /\ get_week_number_in_month(date) \in DOMAIN sched
    /\ DayName(Weekday(date)) \in DOMAIN sched[get_week_number_in_month(date)]

Entry(sched, date) == sched[get_week_number_in_month(date)][DayName(Weekday(date))]

\* weekday < 5
IsWorkday(date) == Weekday(date) < 5

----------------------------------------------------------------------------
(* Inputs *)

MaxRows == 2         \* longest table drawn from RichRows
MaxSpan == 6         \* the long walks cover MaxSpan + 1 consecutive dates
WindowDays == 37     \* start dates of the long walks: 2026-01-26 .. 2026-03-03

E  == <<>>
A  == <<"A">>
B  == <<"B">>
AH == <<"A", "#">>

RichMarkers == {AM, <<" ", "a", "m">>, <<"p", "m", " ">>, <<"X">>}

RichCells == {E, <<" ">>, <<" ", "A", " ">>, B}

\* rows that differ in the marker and in the Monday cell; rows whose week is
\* written as text, or is another week; rows whose week int() rejects
RichRows ==
    {Row(IntCell(1), m, c, E, E, E, E) : m \in RichMarkers, c \in RichCells}
    \cup {Row(StrCell(<<" ", "1">>), AM, B, E, E, E, E),
          Row(IntCell(2), AM, B, E, E, E, E),
          Row(StrCell(<<"x">>), AM, B, E, E, E, E),
          Row(NoneCell, AM, B, E, E, E, E)}

RECURSIVE Tables(_, _)
Tables(rows, n) ==
    IF n = 0 THEN {<<>>}
    ELSE LET shorter == Tables(rows, n - 1)
         IN  shorter \cup {Append(t, r) : t \in {u \in shorter : Len(u) = n - 1}, r \in rows}

AllWeeks == <<1, 2, 3, 4, 5>>

\* an AM row and a PM row per week of `weeks`, as the editor's grid has them
\* (pmFirst: the PM row above the AM row)
RECURSIVE Grid(_, _, _, _)
Grid(weeks, am, pm, pmFirst) ==
    IF weeks = <<>> THEN <<>>
    ELSE LET w     == Head(weeks)
             amRow == Row(IntCell(w), AM, am[1], am[2], am[3], am[4], am[5])
             pmRow == Row(IntCell(w), PM, pm[1], pm[2], pm[3], pm[4], pm[5])
         IN  (IF pmFirst THEN <<pmRow, amRow>> ELSE <<amRow, pmRow>>)
                 \o Grid(Tail(weeks), am, pm, pmFirst)

\* default_data: weeks 1..5, an AM and a PM row each, every cell ""
default_data == Grid(AllWeeks, <<E, E, E, E, E>>, <<E, E, E, E, E>>, FALSE)

GridTables ==
    { default_data,
      Grid(AllWeeks, <<A, A, A, B, AH>>, <<A, B, E, AH, A>>, FALSE),
      Grid(AllWeeks, <<A, A, A, B, AH>>, <<A, B, E, AH, A>>, TRUE),
      Grid(<<1, 5>>, <<A, A, A, B, AH>>, <<A, B, E, AH, A>>, FALSE),
      Grid(<<5, 1>>, <<E, B, E, E, E>>, <<A, B, A, AH, A>>, TRUE),
      Grid(AllWeeks, <<A, A, E, B, B>>, <<A, B, E, AH, B>>, FALSE),
      Grid(<<1, 2>>, <<A, E, E, E, E>>, <<A, E, E, E, E>>, FALSE) }

FirstDate == ToOrdinal(2026, 1, 26)
RichStart == ToOrdinal(2026, 2, 2)

\* The inputs of a run: every table of up to MaxRows rich rows with a range of
\* zero, one or two dates from Monday 2026-02-02 (one of them start > end); and
\* every grid table with every start date of the window and a range that is
\* rejected (end = start - 1), one date, or MaxSpan + 1 dates long.
Inputs ==
    {<<t, RichStart, e>> : t \in Tables(RichRows, MaxRows),
                           e \in (RichStart - 1)..(RichStart + 1)}
    \cup
    {<<t, s, s + k>> : t \in GridTables,
                       s \in FirstDate..(FirstDate + WindowDays - 1),
                       k \in {0 - 1, 0, MaxSpan}}

----------------------------------------------------------------------------
(* The script *)

Init ==
    /\ \E in \in Inputs :
          /\ edited_df = in[1]
          /\ start_date = in[2]
          /\ end_date = in[3]
          /\ current_date = in[2]
    /\ pc = "guard"
    /\ row_i = 1
    /\ schedule = EmptySchedule
    /\ events = <<>>
    /\ raised = "none"
    /\ ics_calls = 0
    /\ ics_content = <<>>

\* if start_date > end_date: st.error(...)
RejectRange ==
    /\ pc = "guard"
    /\ RangeRejected(start_date, end_date)
    /\ pc' = "rejected"
    /\ UNCHANGED <<edited_df, start_date, end_date, row_i, schedule,
                   current_date, events, raised, ics_calls, ics_content>>

\* else: schedule = build_schedule_from_df(edited_df): schedule = {}
EnterBuild ==
    /\ pc = "guard"
    /\ ~RangeRejected(start_date, end_date)
    /\ pc' = "build"
    /\ row_i' = 1
    /\ schedule' = EmptySchedule
    /\ UNCHANGED <<edited_df, start_date, end_date,
                   current_date, events, raised, ics_calls, ics_content>>

\* one row of the loop of build_schedule_from_df
BuildRow ==
    /\ pc = "build"
    /\ row_i <= Len(edited_df)
    /\ ToInt(edited_df[row_i]["Week"]).raises = "none"
    /\ schedule' = build_row(schedule, edited_df[row_i])
    /\ row_i' = row_i + 1
    /\ UNCHANGED <<edited_df, start_date, end_date, pc,
                   current_date, events, raised, ics_calls, ics_content>>

\* int(row["Week"]) raises: the exception leaves build_schedule_from_df and the script
BuildRaise ==
    /\ pc = "build"
    /\ row_i <= Len(edited_df)
    /\ ToInt(edited_df[row_i]["Week"]).raises # "none"
    /\ raised' = ToInt(edited_df[row_i]["Week"]).raises
    /\ pc' = "failed"
    /\ UNCHANGED <<edited_df, start_date, end_date, row_i, schedule,
                   current_date, events, ics_calls, ics_content>>

build_schedule_from_df == BuildRow \/ BuildRaise

\* return schedule; the any(...) guard is false: st.info(...)
SuppressEmpty ==
    /\ pc = "build"
    /\ row_i > Len(edited_df)
    /\ ~AnyLabel(schedule)
    /\ pc' = "idle"
    /\ UNCHANGED <<edited_df, start_date, end_date, row_i, schedule,
                   current_date, events, raised, ics_calls, ics_content>>

\* return schedule; the any(...) guard is true: generate_ics(...) is called and
\* generate_events starts with events = [], current_date = start_date
CallGenerateIcs ==
    /\ pc = "build"
    /\ row_i > Len(edited_df)
    /\ AnyLabel(schedule)
    /\ pc' = "walk"
    /\ ics_calls' = ics_calls + 1
    /\ current_date' = start_date
    /\ events' = <<>>
    /\ UNCHANGED <<edited_df, start_date, end_date, row_i, schedule,
                   raised, ics_content>>

InLoop == pc = "walk" /\ current_date <= end_date

Advance ==
    /\ current_date' = current_date + 1
    /\ UNCHANGED <<edited_df, start_date, end_date, pc, row_i, schedule,
                   raised, ics_calls, ics_content>>

\* weekday >= 5
SkipWeekend ==
    /\ InLoop
    /\ ~IsWorkday(current_date)
    /\ events' = events
    /\ Advance

\* the (week, weekday) entry is not in the schedule
SkipNoEntry ==
    /\ InLoop
    /\ IsWorkday(current_date)
    /\ ~HasEntry(schedule, current_date)
    /\ events' = events
    /\ Advance

\* sessions.get("AM") == sessions.get("PM") and sessions["AM"] exists
EmitMerged ==
    /\ InLoop
    /\ IsWorkday(current_date)
    /\ HasEntry(schedule, current_date)
    /\ SameSessions(Entry(schedule, current_date))
    /\ HasKey(Entry(schedule, current_date), AM)
    /\ events' = Append(events, MergedBlock(current_date, Entry(schedule, current_date)))
    /\ Advance

\* sessions.get("AM") == sessions.get("PM") == None: sessions["AM"] raises KeyError
RaiseKeyError ==
    /\ InLoop
    /\ IsWorkday(current_date)
    /\ HasEntry(schedule, current_date)
    /\ SameSessions(Entry(schedule, current_date))
    /\ ~HasKey(Entry(schedule, current_date), AM)
    /\ raised' = "KeyError"
    /\ pc' = "failed"
    /\ UNCHANGED <<edited_df, start_date, end_date, row_i, schedule,
                   current_date, events, ics_calls, ics_content>>

\* the else branch: one block per item of sessions
EmitSessions ==
    /\ InLoop
    /\ IsWorkday(current_date)
    /\ HasEntry(schedule, current_date)
    /\ ~SameSessions(Entry(schedule, current_date))
    /\ events' = events \o SessionBlocks(current_date, Entry(schedule, current_date))
    /\ Advance

generate_events == SkipWeekend \/ SkipNoEntry \/ EmitMerged \/ RaiseKeyError \/ EmitSessions

\* the loop ends: generate_ics returns the document and the download is offered
generate_ics ==
    /\ pc = "walk"
    /\ current_date > end_date
    /\ ics_content' = <<events>>
    /\ pc' = "offered"
    /\ UNCHANGED <<edited_df, start_date, end_date, row_i, schedule,
                   current_date, events, raised, ics_calls>>

Next ==
    \/ RejectRange
    \/ EnterBuild
    \/ build_schedule_from_df
    \/ SuppressEmpty
    \/ CallGenerateIcs
    \/ generate_events
    \/ generate_ics

Spec == Init /\ [][Next]_vars

----------------------------------------------------------------------------
(* Vocabulary of the properties *)

\* generate_events has been entered / has ended (returned or raised)
Started == pc \in {"walk", "offered"} \/ (pc = "failed" /\ raised = "KeyError")
Ended   == pc = "offered" \/ (pc = "failed" /\ raised = "KeyError")
Returned == pc = "offered"

InRange == start_date..end_date

\* the dates whose loop iteration has completed
Walked == IF Started THEN {d \in InRange : d < current_date} ELSE {}

\* yyyymmdd of a date, as a number
DateNum(d) ==
    LET y == YearOf(d)
        m == MonthFrom(y, 1, d - DaysBeforeYear(y) - 1)
    IN  y * 10000 + m * 100 + (d - DaysBeforeYear(y) - DaysBeforeMonth(y, m))

\* the timestamp text reads: date d, hour:00:00
IsAt(text, d, hour) ==
    /\ Len(text) = 15
    /\ Chars(SubSeq(text, 1, 8)) \subseteq Digits
    /\ ParseDigits(SubSeq(text, 1, 8)) = DateNum(d)
    /\ text[9] = "T"
    /\ Chars(SubSeq(text, 10, 15)) \subseteq Digits
    /\ ParseDigits(SubSeq(text, 10, 15)) = hour * 10000

\* the text has the shape of a timestamp: yyyymmddThhmmss
IsTimestamp(text) ==
    /\ Len(text) = 15
    /\ Chars(SubSeq(text, 1, 8)) \subseteq Digits
    /\ text[9] = "T"
    /\ Chars(SubSeq(text, 10, 15)) \subseteq Digits
    /\ ParseDigits(SubSeq(text, 10, 11)) \in 0..23

\* the block spans from..to o'clock of date d and carries the label
IsBlock(ev, d, from, to, label) ==
    /\ IsAt(ev.DTSTART, d, from)
    /\ IsAt(ev.DTEND, d, to)
    /\ ev.SUMMARY = label
    /\ ev.LOCATION = label

\* the positions in `blocks` of the blocks that start on date d
PositionsOn(blocks, d) ==
    LET n == DateNum(d)
    IN  {k \in 1..Len(blocks) : ParseDigits(SubSeq(blocks[k].DTSTART, 1, 8)) = n}

\* week of the month as the specification defines it
SpecWeek(d) == ((DayOf(d) - 1) \div 7) + 1

\* Saturday or Sunday, counted from Sunday 2026-02-01
IsWeekend(d) == (d - ToOrdinal(2026, 2, 1)) % 7 \in {0, 6}

\* T[week(d)][weekday(d)]: <<>> when absent, else <<sessions>>
TemplateEntry(d) ==
    IF  /\ ~IsWeekend(d)
        /\ SpecWeek(d) \in DOMAIN schedule
        /\ DayName(Weekday(d)) \in DOMAIN schedule[SpecWeek(d)]
    THEN <<schedule[SpecWeek(d)][DayName(Weekday(d))]>>
    ELSE <<>>

\* the entry of d is absent or holds neither an AM nor a PM label
NoLabel(d) ==
    \/ TemplateEntry(d) = <<>>
    \/ /\ TemplateEntry(d) # <<>>
       /\ ~HasKey(TemplateEntry(d)[1], AM)
       /\ ~HasKey(TemplateEntry(d)[1], PM)

\* the entry of d holds AM = PM = one label
MergedEntry(d) ==
    /\ TemplateEntry(d) # <<>>
    /\ HasKey(TemplateEntry(d)[1], AM)
    /\ HasKey(TemplateEntry(d)[1], PM)
    /\ Item(TemplateEntry(d)[1], AM) = Item(TemplateEntry(d)[1], PM)

\* the entry of d holds AM and PM labels that are not equal, and no other key
SplitEntry(d) ==
    /\ TemplateEntry(d) # <<>>
    /\ Keys(TemplateEntry(d)[1]) \subseteq {AM, PM}
    /\ Get(TemplateEntry(d)[1], AM) # Get(TemplateEntry(d)[1], PM)

\* exactly one block for d: 08:00-17:00, labelled with the AM = PM label
OneMergedBlock(d) ==
    /\ Cardinality(PositionsOn(events, d)) = 1
    /\ \A k \in PositionsOn(events, d) :
          IsBlock(events[k], d, 8, 17, Item(TemplateEntry(d)[1], AM))

\* one block per session key of d and no other: AM 08:00-12:00, PM 13:00-17:00
OneBlockPerSession(d) ==
    LET sessions == TemplateEntry(d)[1]
        on       == PositionsOn(events, d)
    IN  /\ Cardinality(on) = Cardinality(Keys(sessions))
        /\ HasKey(sessions, AM) =>
              \E k \in on : IsBlock(events[k], d, 8, 12, Item(sessions, AM))
        /\ HasKey(sessions, PM) =>
              \E k \in on : IsBlock(events[k], d, 13, 17, Item(sessions, PM))

----------------------------------------------------------------------------
(* Properties *)

\* C1: when generate_events has ended, it has returned, and every date of the
\* range whose template entry is absent, or present without an AM and without a
\* PM label, has no event.
C1_NoEventWithoutLabel ==
    Ended => \A d \in InRange :
        NoLabel(d) => (Returned /\ PositionsOn(events, d) = {})

\* C1, as far as the code goes: a date whose entry is absent adds no event.
C1_AbsentEntryAddsNothing ==
    \A d \in Walked : TemplateEntry(d) = <<>> => PositionsOn(events, d) = {}

\* C2: when generate_events has ended, it has returned, and every weekday of the
\* range whose entry has AM = PM = L has exactly one event, 08:00-17:00 of that
\* date, with SUMMARY = LOCATION = L.
C2_OneMergedEvent ==
    Ended => \A d \in InRange :
        MergedEntry(d) => (Returned /\ OneMergedBlock(d))

\* C2, as far as the code goes: every date the loop has completed whose entry has
\* AM = PM = L has exactly that one event.
C2_MergedBranch ==
    \A d \in Walked : MergedEntry(d) => OneMergedBlock(d)

\* C3: when generate_events has ended, it has returned, and every weekday of the
\* range whose entry has unequal AM and PM labels has one event per session key
\* present and no other: AM 08:00-12:00, PM 13:00-17:00, each with its label.
C3_OneEventPerSession ==
    Ended => \A d \in InRange :
        SplitEntry(d) => (Returned /\ OneBlockPerSession(d))

\* C3, as far as the code goes: every date the loop has completed whose entry has
\* unequal AM and PM labels has exactly those events.
C3_SessionBranch ==
    \A d \in Walked : SplitEntry(d) => OneBlockPerSession(d)

\* the blocks emitted so far and the blocks of the document, when there is one
AllBlocks == IF ics_content = <<>> THEN events ELSE events \o ics_content[1]

\* C4: every event starts and ends on one date of the range, and that date is
\* neither a Saturday nor a Sunday.
C4_NoWeekendEvent ==
    LET workdays == {DateNum(d) : d \in {x \in InRange : ~IsWeekend(x)}}
    IN  \A k \in 1..Len(AllBlocks) :
            /\ IsTimestamp(AllBlocks[k].DTSTART)
            /\ IsTimestamp(AllBlocks[k].DTEND)
            /\ SubSeq(AllBlocks[k].DTSTART, 1, 8) = SubSeq(AllBlocks[k].DTEND, 1, 8)
            /\ ParseDigits(SubSeq(AllBlocks[k].DTSTART, 1, 8)) \in workdays

\* a walk over a weekend of a week the template has, with events around it
C4_Witness ==
    /\ Returned
    /\ events # <<>>
    /\ \E d \in InRange : IsWeekend(d) /\ SpecWeek(d) \in DOMAIN schedule

\* the labels of the (week, weekday) entry, {} when the entry is absent
LabelsOf(week, d) ==
    IF week \in DOMAIN schedule /\ DayName(Weekday(d)) \in DOMAIN schedule[week]
    THEN {schedule[week][DayName(Weekday(d))][k][2] :
             k \in 1..Len(schedule[week][DayName(Weekday(d))])}
    ELSE {}

\* C5: the week number of every date of the range is floor((day - 1) / 7) + 1 and
\* lies in 1..5; week 5 is days 29..31 only and no date of a 28-day February; and
\* the events of a date whose DTSTART shows day dd carry labels of the template's
\* week floor((dd - 1) / 7) + 1 entry, which has events whenever it has labels.
C5_WeekOfMonth ==
    \A d \in InRange :
        /\ get_week_number_in_month(d) = SpecWeek(d)
        /\ get_week_number_in_month(d) \in 1..5
        /\ get_week_number_in_month(d) = 5 <=> DayOf(d) \in 29..31
        /\ (MonthOf(d) = 2 /\ DaysInMonth(YearOf(d), 2) = 28) =>
              get_week_number_in_month(d) # 5
        /\ \A k \in PositionsOn(events, d) :
              LET dd == ParseDigits(SubSeq(events[k].DTSTART, 7, 8))
              IN  /\ dd \in (7 * (SpecWeek(d) - 1) + 1)..(7 * SpecWeek(d))
                  /\ events[k].SUMMARY \in LabelsOf(((dd - 1) \div 7) + 1, d)
        /\ (d \in Walked /\ ~NoLabel(d)) => PositionsOn(events, d) # {}

\* a week-5 date with an event, in a range that also holds dates of a 28-day February
C5_Witness ==
    /\ Returned
    /\ \E d \in InRange : DayOf(d) \in 29..31 /\ PositionsOn(events, d) # {}
    /\ \E d \in InRange : MonthOf(d) = 2 /\ DaysInMonth(YearOf(d), 2) = 28

\* the week number and the session marker row i stands for
RowWeek(i) == ToInt(edited_df[i]["Week"])
RowKey(i) == Upper(Strip(edited_df[i]["AM/PM"]))

\* row i supplies a non-empty value for (week, day, key)
Supplies(i, week, day, key) ==
    /\ \E k \in 1..Len(edited_df[i][day]) : ~IsSpace(edited_df[i][day][k])
    /\ RowWeek(i).raises = "none"
    /\ RowWeek(i).value = week
    /\ RowKey(i) = key

SetMin(S) == CHOOSE x \in S : \A y \in S : x <= y
SetMax(S) == CHOOSE x \in S : \A y \in S : x >= y

\* the first row that supplies a value for the session `key` of date d, 0 if none
FirstRow(d, key) ==
    LET rows == {i \in 1..Len(edited_df) :
                    Supplies(i, SpecWeek(d), DayName(Weekday(d)), key)}
    IN  IF rows = {} THEN 0 ELSE SetMin(rows)

\* date d has emitted events and its entry holds unequal AM and PM labels
EmitsBoth(d) ==
    /\ TemplateEntry(d) # <<>>
    /\ HasKey(TemplateEntry(d)[1], AM)
    /\ HasKey(TemplateEntry(d)[1], PM)
    /\ Item(TemplateEntry(d)[1], AM) # Item(TemplateEntry(d)[1], PM)
    /\ PositionsOn(events, d) # {}

AmBlockAt(k, d) == IsBlock(events[k], d, 8, 12, Item(TemplateEntry(d)[1], AM))
PmBlockAt(k, d) == IsBlock(events[k], d, 13, 17, Item(TemplateEntry(d)[1], PM))

\* blocks of an earlier date precede blocks of a later date
DatesAscending ==
    \A i, j \in 1..Len(events) :
        i < j => ParseDigits(SubSeq(events[i].DTSTART, 1, 8))
                    <= ParseDigits(SubSeq(events[j].DTSTART, 1, 8))

\* C6 as stated: dates ascend, and on a date that emits an AM and a PM event the
\* AM block precedes the PM block, whatever the order of the rows.
C6_AmBeforePm ==
    /\ DatesAscending
    /\ \A d \in InRange : EmitsBoth(d) =>
          \E i, j \in PositionsOn(events, d) : i < j /\ AmBlockAt(i, d) /\ PmBlockAt(j, d)

\* C6 amended: dates ascend, and on a date that emits an AM and a PM event the two
\* blocks stand in the order in which the table first supplies the two sessions
\* of that (week, weekday): AM first when the first row with a non-empty AM cell
\* is above the first row with a non-empty PM cell, PM first otherwise.
C6_RowOrder ==
    /\ DatesAscending
    /\ \A d \in InRange : EmitsBoth(d) =>
          /\ FirstRow(d, AM) # 0
          /\ FirstRow(d, PM) # 0
          /\ FirstRow(d, AM) < FirstRow(d, PM) =>
                \E i, j \in PositionsOn(events, d) :
                    i < j /\ AmBlockAt(i, d) /\ PmBlockAt(j, d)
          /\ FirstRow(d, PM) < FirstRow(d, AM) =>
                \E i, j \in PositionsOn(events, d) :
                    i < j /\ PmBlockAt(i, d) /\ AmBlockAt(j, d)

\* a returned walk over several dates, one of them with the PM row above the AM row
C6_Witness ==
    /\ Returned
    /\ \E d \in InRange : EmitsBoth(d) /\ FirstRow(d, PM) < FirstRow(d, AM)
    /\ \E i, j \in 1..Len(events) :
          ParseDigits(SubSeq(events[i].DTSTART, 1, 8))
              < ParseDigits(SubSeq(events[j].DTSTART, 1, 8))

\* some cell of the table holds a label of an AM or PM row
TableHasLabel ==
    \E i \in 1..Len(edited_df) : \E day \in DOMAIN WEEKDAY_MAP :
        /\ Upper(Strip(edited_df[i]["AM/PM"])) \in {AM, PM}
        /\ Strip(edited_df[i][day]) # <<>>

\* C7: generate_ics is called, and a document exists, only if start_date <=
\* end_date and the table holds an AM or PM label; it is called at most once.
C7_GuardedGeneration ==
    (ics_calls > 0 \/ ics_content # <<>>) =>
        /\ start_date <= end_date
        /\ TableHasLabel
        /\ AnyLabel(schedule)
        /\ ics_calls = 1

\* a document with events has been produced
C7_Witness ==
    /\ Returned
    /\ ics_content # <<>>
    /\ Len(ics_content[1]) > 0

\* the rows build_schedule_from_df has processed
DoneRows == 1..(row_i - 1)

AllKeys ==
    {Upper(Strip(edited_df[i]["AM/PM"])) : i \in 1..Len(edited_df)} \cup {AM, PM}

\* text t is value with blanks before and after it, and value is trimmed
IsTrimOf(value, t) ==
    /\ value # <<>>
    /\ ~IsSpace(value[1])
    /\ ~IsSpace(value[Len(value)])
    /\ \E a \in 0..(Len(t) - Len(value)) :
          /\ SubSeq(t, a + 1, a + Len(value)) = value
          /\ \A k \in (1..a) \cup ((a + Len(value) + 1)..Len(t)) : IsSpace(t[k])

\* the template holds a value for (week, day, key)
Holds(week, day, key) ==
    /\ week \in DOMAIN schedule
    /\ day \in DOMAIN schedule[week]
    /\ HasKey(schedule[week][day], key)

\* C8: for every (week, weekday, session) the template holds the trimmed cell of
\* the last processed row that supplies a non-empty value for it, and no key when
\* no processed row does.
C8_LastRowWins ==
    /\ \A i \in DoneRows : \A day \in DOMAIN WEEKDAY_MAP :
          LET week == ToInt(edited_df[i]["Week"]).value
              key  == Upper(Strip(edited_df[i]["AM/PM"]))
              last == SetMax({j \in DoneRows : Supplies(j, week, day, key)})
          IN  Supplies(i, week, day, key) =>
                 /\ Holds(week, day, key)
                 /\ IsTrimOf(Item(schedule[week][day], key), edited_df[last][day])
    /\ \A week \in DOMAIN schedule : \A day \in DOMAIN schedule[week] :
          \A key \in Keys(schedule[week][day]) :
              \E i \in DoneRows : Supplies(i, week, day, key)

\* the normalizer has returned a template for a table in which two rows supply
\* different values for one triple
C8_Witness ==
    /\ pc \in {"idle", "walk", "offered"}
    /\ \E i, j \in DoneRows : \E week \in 1..5 : \E day \in DOMAIN WEEKDAY_MAP :
        \E key \in AllKeys :
          /\ i < j
          /\ Supplies(i, week, day, key)
          /\ Supplies(j, week, day, key)
          /\ Strip(edited_df[i][day]) # Strip(edited_df[j][day])
          /\ edited_df[i]["AM/PM"] # edited_df[j]["AM/PM"]

\* the week value is one int() cannot convert
Unconvertible(x) ==
    \/ x.t = "none"
    \/ x.t = "str" /\ \E k \in 1..Len(x.s) : x.s[k] \notin Digits \cup {" "}
    \/ x.t = "str" /\ Chars(x.s) \subseteq {" "}

\* the loop of build_schedule_from_df stands at a row with such a week value
MeetsBadWeek ==
    /\ pc = "build"
    /\ row_i <= Len(edited_df)
    /\ Unconvertible(edited_df[row_i]["Week"])

\* the normalizer has failed
BuildFailed == pc = "failed" /\ ics_calls = 0

\* C9 as stated: a failure of the normalizer is a MalformedInputError.
C9_MalformedInputError == BuildFailed => raised = "MalformedInputError"

\* C9 amended: at a row whose week value cannot be converted the normalizer fails,
\* and it fails with the exception of int() itself (ValueError for text, TypeError
\* for a missing value), uncaught; nothing runs after it, so no template is
\* returned, generate_ics is not called and no document exists.
C9_LowLevelError ==
    [][ /\ pc # "failed"
        /\ MeetsBadWeek =>
              /\ pc' = "failed"
              /\ raised' = (IF edited_df[row_i]["Week"].t = "none"
                            THEN "TypeError" ELSE "ValueError")
              /\ ics_calls' = 0
              /\ ics_content' = <<>>
        /\ pc' = "failed" /\ ics_calls' = 0 => MeetsBadWeek ]_vars

\* the normalizer has failed at the second row, after a row it has stored
C9_Witness ==
    /\ BuildFailed
    /\ raised = "ValueError"
    /\ row_i = 2
    /\ AnyLabel(schedule)

\* every session marker of the table is AM or PM, case and blanks apart
MarkersAmPm ==
    \A i \in 1..Len(edited_df) : Upper(Strip(edited_df[i]["AM/PM"])) \in {AM, PM}

\* C10: when every session marker is AM or PM, the UIDs of the events are
\* pairwise distinct: each begins with its event's start timestamp and no two
\* events share a start timestamp.
C10_DistinctUids ==
    MarkersAmPm =>
        /\ \A k \in 1..Len(AllBlocks) :
              /\ Len(AllBlocks[k].UID) >= 15
              /\ SubSeq(AllBlocks[k].UID, 1, 15) = AllBlocks[k].DTSTART
        /\ \A i, j \in 1..Len(events) :
              i # j => /\ events[i].UID # events[j].UID
                       /\ events[i].DTSTART # events[j].DTSTART

\* a document with two events whose different labels sanitize to the same text
C10_Witness ==
    /\ Returned
    /\ MarkersAmPm
    /\ \E i, j \in 1..Len(events) :
          /\ events[i].SUMMARY # events[j].SUMMARY
          /\ sanitize_uid(events[i].SUMMARY) = sanitize_uid(events[j].SUMMARY)

====
